---- MODULE Spec2Model ----
(***************************************************************************)
(* A model of thrift_client: SimpleClient (one endpoint), MultiClient (the *)
(* endpoint pool), ReplicatedClient / ThreadedReplicatedClient (broadcast) *)
(* and HashClient (hash routing with its nested `all` pool), translated    *)
(* from src/thrift_client/thrift_client.py.                                *)
(***************************************************************************)
EXTENDS Integers, Sequences, FiniteSets, TLC

(***************************************************************************)
(* Bounds of the model.                                                    *)
(***************************************************************************)
\* SimpleClient objects ever constructed in one run
MaxObjs == 2
\* length of a pool's `servers` list
MaxPool == 2

(***************************************************************************)
(* Values.  Python's None / falsy arguments are encoded per type: the      *)
(* empty string for a missing name or host (both are falsy in `if name:`), *)
(* 0 for a missing server object or port.                                  *)
(***************************************************************************)
NoName == ""
NoHost == ""
NoServer == 0
NoPort == 0
NoTimeout == 0
_DEFAULT_TIMEOUT == 60001

Hosts == {"h1", "h2"}
Ports == {9090}
\* the explicit name a caller may give; it is also a host string, so that the
\* name of one endpoint can coincide with the host of an endpoint
Names == {"h1"}

VARIABLES
  objs,       \* the SimpleClient objects constructed so far; the index is the identity
  pool,       \* a MultiClient (ReplicatedClient / ThreadedReplicatedClient): servers, server_dict
  last,       \* the last pool operation: its name, raised error and return value
  call,       \* the remote call the main thread made last, or is making
  invs,       \* the invocations of SimpleClient.__getattr__.f made for that call
  responses,  \* the `responses` list of the broadcast call
  hc          \* a HashClient: its own pool (self), its nested pool (all), hashfns

vars == <<objs, pool, last, call, invs, responses, hc>>

(***************************************************************************)
(* Threads.  SimpleClient derives from threading.local: each thread has    *)
(* its own copy of the attributes, made by running __init__ again with the *)
(* constructor's arguments when the thread first touches the object.       *)
(* Thread 0 is the main thread; thread i >= 1 is the worker that a         *)
(* threaded broadcast starts for servers[i - 1] (Python index).            *)
(***************************************************************************)
Main == 0
Threads == 0..MaxPool

(***************************************************************************)
(* Dictionaries (server_dict) are functions from the present keys.         *)
(***************************************************************************)
EmptyDict == [n \in {} |-> NoServer]
DictSet(d, k, v) == [n \in (DOMAIN d) \cup {k} |-> IF n = k THEN v ELSE d[n]]
DictDel(d, k) == [n \in (DOMAIN d) \ {k} |-> d[n]]

(***************************************************************************)
(* _canonicalize_hostport: a given port is returned as is; without a port  *)
(* a "host:port" string is split; anything else raises.  The strings with  *)
(* a colon that the model feeds are those of ColonForms.                   *)
(***************************************************************************)
ColonForms == [s \in {"h1:9090"} |-> [host |-> "h1", port |-> 9090]]

_canonicalize_hostport(host, port) ==
  IF port # NoPort THEN [err |-> "none", host |-> host, port |-> port]
  ELSE IF host = NoHost THEN [err |-> "TypeError", host |-> host, port |-> port]
  ELSE IF host \in DOMAIN ColonForms
       THEN [err |-> "none", host |-> ColonForms[host].host, port |-> ColonForms[host].port]
  ELSE [err |-> "ValueError", host |-> host, port |-> port]

(***************************************************************************)
(* SimpleClient.__init__: the attributes of a new endpoint object whose    *)
(* identity is id.  The name defaults to one derived from the identity.    *)
(***************************************************************************)
AutoName(id) == "Proto-" \o ToString(id)

SimpleClient(id, host, port, file, timeout, name) ==
  LET hp == _canonicalize_hostport(host, port)
  IN [err |-> hp.err,
      obj |-> [host |-> hp.host, port |-> hp.port, protocol |-> "Proto",
               timeout |-> IF timeout # NoTimeout THEN timeout ELSE _DEFAULT_TIMEOUT,
               file |-> file,
               enabled |-> [t \in Threads |-> TRUE],
               name |-> IF name # NoName THEN name ELSE AutoName(id)]]

\* SimpleClient.__eq__
PyEq(os, a, b) ==
  <<os[a].host, os[a].port, os[a].protocol>> = <<os[b].host, os[b].port, os[b].protocol>>

(***************************************************************************)
(* list.remove(x): drops the first element equal to x.                     *)
(***************************************************************************)
HasEq(os, s, x) == \E i \in 1..Len(s) : PyEq(os, s[i], x)
FirstEq(os, s, x) ==
  CHOOSE i \in 1..Len(s) : PyEq(os, s[i], x) /\ \A j \in 1..(i - 1) : ~PyEq(os, s[j], x)
DropAt(s, i) == SubSeq(s, 1, i - 1) \o SubSeq(s, i + 1, Len(s))
ListRemove(os, s, x) == DropAt(s, FirstEq(os, s, x))

(***************************************************************************)
(* MultiClient.__init__: self.timeout = None, whatever the argument.       *)
(* `given` is not an attribute of the object: it keeps the argument of the *)
(* constructor for the properties that speak of it.                        *)
(***************************************************************************)
MultiClient_init(timeout) ==
  [timeout |-> NoTimeout, given |-> timeout, servers |-> <<>>, server_dict |-> EmptyDict]

(***************************************************************************)
(* MultiClient.get_server(name, host, port)                                *)
(***************************************************************************)
get_server(os, p, name, host, port) ==
  IF name # NoName
  THEN IF name \in DOMAIN p.server_dict
       THEN [err |-> "none", ret |-> p.server_dict[name]]
       ELSE [err |-> "KeyError", ret |-> NoServer]
  ELSE IF host # NoHost /\ port # NoPort
  THEN LET hp == _canonicalize_hostport(host, port)
           hit == {i \in 1..Len(p.servers) :
                     <<os[p.servers[i]].host, os[p.servers[i]].port>> = <<hp.host, hp.port>>}
       IN IF hit # {}
          THEN [err |-> "none",
                ret |-> p.servers[CHOOSE i \in hit : \A j \in hit : i <= j]]
          ELSE [err |-> "KeyError", ret |-> NoServer]
  ELSE [err |-> "KeyError", ret |-> NoServer]

(***************************************************************************)
(* MultiClient.add_server(host, port, server, name): the objects, the pool *)
(* and the outcome after the call.  The append comes before the duplicate  *)
(* check, and the check reads the `name` argument.                         *)
(***************************************************************************)
add_server(os, p, host, port, server, name) ==
  LET id == Len(os) + 1
      made == SimpleClient(id, host, port, FALSE, p.timeout, name)
      os1 == IF server = NoServer THEN Append(os, made.obj) ELSE os
      srv == IF server = NoServer THEN id ELSE server
      p1 == [p EXCEPT !.servers = Append(p.servers, srv)]
  IN IF server = NoServer /\ made.err # "none"
     THEN [objs |-> os, pool |-> p, err |-> made.err, ret |-> NoServer]
     ELSE IF name \in DOMAIN p.server_dict
     THEN [objs |-> os1, pool |-> p1, err |-> "ValueError", ret |-> NoServer]
     ELSE [objs |-> os1,
           pool |-> [p1 EXCEPT !.server_dict = DictSet(p.server_dict, os1[srv].name, srv)],
           err |-> "none", ret |-> srv]

\* a variant of the `if server:` branch that leaves server_dict as it is
remove_by_ref_keeps_name(os, p, server) ==
  IF ~HasEq(os, p.servers, server)
  THEN [pool |-> p, err |-> "ValueError"]
  ELSE [pool |-> [p EXCEPT !.servers = ListRemove(os, p.servers, server)], err |-> "none"]

(***************************************************************************)
(* MultiClient.remove_server, the `if server:` branch: list.remove, then   *)
(* del server_dict[server.name].                                           *)
(***************************************************************************)
remove_by_ref(os, p, server) ==
  IF ~HasEq(os, p.servers, server)
  THEN [pool |-> p, err |-> "ValueError"]
  ELSE LET p1 == [p EXCEPT !.servers = ListRemove(os, p.servers, server)]
       IN IF os[server].name \notin DOMAIN p.server_dict
          THEN [pool |-> p1, err |-> "KeyError"]
          ELSE [pool |-> [p1 EXCEPT !.server_dict = DictDel(p.server_dict, os[server].name)],
                err |-> "none"]

\* the loop over to_remove of the (host, port) branch; it stops at the first error
RECURSIVE remove_each(_, _, _)
remove_each(os, p, to_remove) ==
  IF to_remove = <<>> THEN [pool |-> p, err |-> "none"]
  ELSE LET r == remove_by_ref(os, p, Head(to_remove))
       IN IF r.err # "none" THEN r ELSE remove_each(os, r.pool, Tail(to_remove))

RECURSIVE Matching(_, _, _, _)
Matching(os, s, host, port) ==
  IF s = <<>> THEN <<>>
  ELSE (IF <<host, port>> = <<os[Head(s)].host, os[Head(s)].port>> THEN <<Head(s)>> ELSE <<>>)
       \o Matching(os, Tail(s), host, port)

remove_by_hostport(os, p, host, port) ==
  LET hp == _canonicalize_hostport(host, port)
  IN IF hp.err # "none" THEN [pool |-> p, err |-> hp.err]
     ELSE remove_each(os, p, Matching(os, p.servers, hp.host, hp.port))

(***************************************************************************)
(* MultiClient.remove_server(server, name, host, port) on a plain          *)
(* MultiClient, where self.remove_server is this same method.              *)
(***************************************************************************)
remove_server(os, p, server, name, host, port) ==
  IF server # NoServer THEN remove_by_ref(os, p, server)
  ELSE IF name # NoName
  THEN LET g == get_server(os, p, name, NoHost, NoPort)
       IN IF g.err # "none" THEN [pool |-> p, err |-> g.err]
          ELSE remove_by_ref(os, p, g.ret)
  ELSE remove_by_hostport(os, p, host, port)

(***************************************************************************)
(* SimpleClient.enable / disable / is_enabled act on the calling thread's  *)
(* copy of `enabled`.                                                      *)
(***************************************************************************)
\* a variant of is_enabled that never finds the endpoint disabled
is_enabled_always(os, o, t) == TRUE

set_enabled(os, o, t, v) == [os EXCEPT ![o].enabled[t] = v]
is_enabled(os, o, t) == os[o].enabled[t]

\* What a thread started now finds on its first access to any endpoint:
\* __init__ has run again in it, so `enabled` is True whatever other threads set.
thread_local_init(os, ts) ==
  [o \in DOMAIN os |->
     [os[o] EXCEPT !.enabled = [t \in Threads |-> IF t \in ts THEN TRUE ELSE os[o].enabled[t]]]]

(***************************************************************************)
(* SimpleClient.__getattr__.f, one invocation of a remote method.          *)
(* How the outside world answers is the input b: b.log says whether the    *)
(* write to the log file works, b.rem is what the server does: "connfail"  *)
(* (transport.open() raises), "ok", "apperr" or "transerr" (the call       *)
(* raises).  The result lists the I/O events in the order the code makes   *)
(* them and the outcome: the returned "value" or the raised error.         *)
(***************************************************************************)
Rems == {"ok", "apperr", "transerr", "connfail"}
Behaviours == [log : BOOLEAN, rem : Rems]
Errors == {"ClientDisabledError", "AppError", "TransportError"}

\* a variant in which a failing log write is raised to the caller
f_begin_log_raises(os, o, t, b) ==
  IF ~is_enabled(os, o, t)
  THEN [events |-> <<>>, out |-> "ClientDisabledError"]
  ELSE IF os[o].file /\ ~b.log
  THEN [events |-> <<"log_write_failed">>, out |-> "TransportError"]
  ELSE LET logged == IF os[o].file THEN <<"log_write">> ELSE <<>>
       IN IF b.rem = "connfail"
          THEN [events |-> logged \o <<"open_failed">>, out |-> "TransportError"]
          ELSE [events |-> logged \o <<"open">>, out |-> "pending"]

\* the is_enabled() check and the write to the log file, up to the point where
\* _connect() waits in transport.open()
f_log(os, o, t, b) ==
  IF ~is_enabled(os, o, t)
  THEN [events |-> <<>>, out |-> "ClientDisabledError"]
  ELSE [events |-> IF os[o].file
                   THEN <<IF b.log THEN "log_write" ELSE "log_write_failed">>
                   ELSE <<>>,
        out |-> "connecting"]

\* transport.open() of _connect() returns or raises
f_open(events, rem) ==
  IF rem = "connfail"
  THEN [events |-> events \o <<"open_failed">>, out |-> "TransportError"]
  ELSE [events |-> events \o <<"open">>, out |-> "pending"]

\* from the is_enabled() check to the return of _connect()
f_begin(os, o, t, b) ==
  LET l == f_log(os, o, t, b)
  IN IF l.out = "connecting" THEN f_open(l.events, b.rem) ELSE l

\* the remote call on the opened connection, then self.socket.close() and return
f_finish(events, rem) ==
  IF rem = "ok" THEN [events |-> events \o <<"call", "close">>, out |-> "value"]
  ELSE IF rem = "apperr" THEN [events |-> events \o <<"call">>, out |-> "AppError"]
  ELSE [events |-> events \o <<"call">>, out |-> "TransportError"]

\* the whole of f, run by thread t without interruption
f(os, o, t, b) ==
  LET r == f_begin(os, o, t, b)
      s == IF r.out = "pending" THEN f_finish(r.events, b.rem) ELSE r
  IN [srv |-> o, thr |-> t, flag |-> is_enabled(os, o, t),
      events |-> s.events, out |-> s.out]

(***************************************************************************)
(* ThriftResponse / ThriftExceptionResponse                                *)
(***************************************************************************)
ThriftResponse(server, response) == [server |-> server, is_error |-> FALSE, val |-> response]
ThriftExceptionResponse(server, exception) == [server |-> server, is_error |-> TRUE, val |-> exception]

\* a variant of the try/except that wraps a raised error as an ordinary response
Response_swallow(inv) == ThriftResponse(inv.srv, inv.out)

\* the try/except around one server's call in the broadcast loops
Response(inv) ==
  IF inv.out \in Errors THEN ThriftExceptionResponse(inv.srv, inv.out)
  ELSE ThriftResponse(inv.srv, inv.out)

(***************************************************************************)
(* ReplicatedClient.__getattr__.f: the serial loop over self.servers.      *)
(* bs[i] is the behaviour the i-th invocation meets.                       *)
(***************************************************************************)
replicated_invs(os, servers, bs) ==
  [i \in 1..Len(servers) |-> f(os, servers[i], Main, bs[i])]

\* a variant of the serial loop that returns at the first server that raises
replicated_f_first_error(os, servers, bs) ==
  LET is == replicated_invs(os, servers, bs)
      bad == {i \in 1..Len(servers) : is[i].out \in Errors}
      n == IF bad = {} THEN Len(servers)
           ELSE CHOOSE i \in bad : \A j \in bad : i <= j
  IN [i \in 1..n |-> Response(is[i])]

replicated_f(os, servers, bs) ==
  LET is == replicated_invs(os, servers, bs)
  IN [i \in 1..Len(servers) |-> Response(is[i])]

(***************************************************************************)
(* HashClient.__init__: a MultiClient, a nested ReplicatedClient `all`,    *)
(* and no hash function set.                                               *)
(***************************************************************************)
HashClient_init(timeout) ==
  [self |-> MultiClient_init(timeout), all |-> MultiClient_init(timeout), hashfns |-> <<>>]

(***************************************************************************)
(* HashClient.add_server(host, port, server): MultiClient.add_server on    *)
(* the client itself, then all.add_server(server=server).                  *)
(***************************************************************************)
hash_add_server(os, h, host, port, server) ==
  LET r1 == add_server(os, h.self, host, port, server, NoName)
      r2 == add_server(r1.objs, h.all, NoHost, NoPort, r1.ret, NoName)
  IN IF r1.err # "none"
     THEN [objs |-> r1.objs, hc |-> [h EXCEPT !.self = r1.pool], err |-> r1.err, ret |-> NoServer]
     ELSE [objs |-> r2.objs, hc |-> [h EXCEPT !.self = r1.pool, !.all = r2.pool],
           err |-> r2.err, ret |-> IF r2.err = "none" THEN r1.ret ELSE NoServer]

(***************************************************************************)
(* HashClient.remove_server(server, host, port).  It hands its arguments   *)
(* on by position, MultiClient.remove_server(self, server, host, port),    *)
(* whose parameters are (server, name, host, port): the callee's `name` is *)
(* the caller's host and the callee's `host` is the caller's port.         *)
(***************************************************************************)
\* HashClient.remove_server(server=s), s an endpoint: both calls take the
\* `if server:` branch
hash_remove_ref(os, h, s) ==
  LET r1 == remove_by_ref(os, h.self, s)
      r2 == remove_by_ref(os, h.all, s)
  IN IF r1.err # "none" THEN [hc |-> [h EXCEPT !.self = r1.pool], err |-> r1.err]
     ELSE [hc |-> [h EXCEPT !.self = r1.pool, !.all = r2.pool], err |-> r2.err]

\* MultiClient.remove_server(self, None, name, host, None) with self the HashClient:
\* in the `elif name:` branch self.remove_server is HashClient.remove_server;
\* in the else branch _canonicalize_hostport(host, None) looks for ':' in a
\* port number or in None and raises TypeError
hash_remove_shifted(os, h, name) ==
  IF name # NoName
  THEN LET g == get_server(os, h.self, name, NoHost, NoPort)
       IN IF g.err # "none" THEN [hc |-> h, err |-> g.err]
          ELSE hash_remove_ref(os, h, g.ret)
  ELSE [hc |-> h, err |-> "TypeError"]

\* all.remove_server(None, name, host, None) on the nested MultiClient
all_remove_shifted(os, h, name) ==
  IF name # NoName
  THEN LET r == remove_server(os, h.all, NoServer, name, NoHost, NoPort)
       IN [hc |-> [h EXCEPT !.all = r.pool], err |-> r.err]
  ELSE [hc |-> h, err |-> "TypeError"]

hash_remove_server(os, h, server, host, port) ==
  IF server # NoServer THEN hash_remove_ref(os, h, server)
  ELSE LET r1 == hash_remove_shifted(os, h, host)
       IN IF r1.err # "none" THEN r1 ELSE all_remove_shifted(os, r1.hc, host)

(***************************************************************************)
(* HashClient.set_hash(fnname, hashfn).  The hash functions a caller       *)
(* registers here: "first_arg" is lambda *a, **kw: a[0], "const" is        *)
(* lambda *a, **kw: 0.                                                     *)
(***************************************************************************)
HashFns == {"first_arg", "const"}
set_hash(h, fnname, hashfn) == [h EXCEPT !.hashfns = DictSet(h.hashfns, fnname, hashfn)]

(***************************************************************************)
(* The hash key and its hash.  Positional arguments are integers; keyword  *)
(* arguments are <<name, value>> pairs in the order the dict yields them.  *)
(* A key is an integer (from a registered function) or a tuple of items,   *)
(* an item being an integer or a (name, value) pair.                       *)
(***************************************************************************)
KwNames == <<"a", "b">>
KwRank(n) == CHOOSE i \in DOMAIN KwNames : KwNames[i] = n

\* sorted(kwargs.items()): the names are distinct, so the order is by name
RECURSIVE sorted(_)
sorted(items) ==
  IF items = <<>> THEN <<>>
  ELSE LET m == CHOOSE i \in DOMAIN items :
                  \A j \in DOMAIN items : KwRank(items[i][1]) <= KwRank(items[j][1])
       IN <<items[m]>> \o sorted(DropAt(items, m))

IntItem(n) == [pair |-> FALSE, name |-> "", v |-> n]
PairItem(kv) == [pair |-> TRUE, name |-> kv[1], v |-> kv[2]]
ItemsOf(args, items) ==
  [i \in 1..(Len(args) + Len(items)) |->
     IF i <= Len(args) THEN IntItem(args[i]) ELSE PairItem(items[i - Len(args)])]

\* a variant of the default key that takes kwargs.items() in the order the dict yields them
default_key_unsorted(args, kwargs) == [tuple |-> TRUE, items |-> ItemsOf(args, kwargs)]

\* args + tuple(sorted(kwargs.items()))
default_key(args, kwargs) == [tuple |-> TRUE, items |-> ItemsOf(args, sorted(kwargs))]

apply_hashfn(fn, args, kwargs) ==
  IF fn = "first_arg" THEN [tuple |-> FALSE, items |-> <<IntItem(args[1])>>]
  ELSE [tuple |-> FALSE, items |-> <<IntItem(0)>>]

\* a variant that applies a registered hash function to every method
hashkey_any_method(h, k, args, kwargs) ==
  IF DOMAIN h.hashfns # {}
  THEN apply_hashfn(h.hashfns[CHOOSE m \in DOMAIN h.hashfns : TRUE], args, kwargs)
  ELSE default_key(args, kwargs)

hashkey(h, k, args, kwargs) ==
  IF k \in DOMAIN h.hashfns THEN apply_hashfn(h.hashfns[k], args, kwargs)
  ELSE default_key(args, kwargs)

(***************************************************************************)
(* hash(): CPython 2.7's on a 64-bit build, without hash randomization.    *)
(* A hash is a C long, kept here as its eight bytes, low byte first, so    *)
(* that the multiplications wrap as they do in C.                          *)
(*   int:   hash(n) = n, and -2 for -1                                     *)
(*   str:   x = ord(s[0]) << 7; for c in s: x = (1000003 * x) ^ ord(c);    *)
(*          x ^= len(s); -2 for -1                                         *)
(*   tuple: x = 0x345678; mult = 1000003; for each item, len counting the  *)
(*          items left after it: x = (x ^ hash(item)) * mult;              *)
(*          mult += 82520 + 2 * len; then x += 97531; -2 for -1            *)
(***************************************************************************)
RECURSIVE Xor8(_, _)
Xor8(a, b) ==
  IF a = 0 THEN b
  ELSE IF b = 0 THEN a
  ELSE ((a + b) % 2) + 2 * Xor8(a \div 2, b \div 2)

\* the long of an integer of the model
Word(n) ==
  LET hi == IF n < 0 THEN 255 ELSE 0
  IN <<n % 256, (n \div 256) % 256, (n \div 65536) % 256, (n \div 16777216) % 256,
       hi, hi, hi, hi>>

\* carries column sums into bytes, dropping the carry out of the top byte
RECURSIVE Wrap(_, _)
Wrap(cols, c) ==
  IF cols = <<>> THEN <<>>
  ELSE <<(Head(cols) + c) % 256>> \o Wrap(Tail(cols), (Head(cols) + c) \div 256)

RECURSIVE ColSum(_, _, _, _)
ColSum(x, y, k, i) == IF i = 0 THEN 0 ELSE x[i] * y[k + 1 - i] + ColSum(x, y, k, i - 1)

WXor(x, y) ==
  <<Xor8(x[1], y[1]), Xor8(x[2], y[2]), Xor8(x[3], y[3]), Xor8(x[4], y[4]),
    Xor8(x[5], y[5]), Xor8(x[6], y[6]), Xor8(x[7], y[7]), Xor8(x[8], y[8])>>
WAdd(x, y) ==
  Wrap(<<x[1] + y[1], x[2] + y[2], x[3] + y[3], x[4] + y[4],
         x[5] + y[5], x[6] + y[6], x[7] + y[7], x[8] + y[8]>>, 0)
WMul(x, y) ==
  Wrap(<<ColSum(x, y, 1, 1), ColSum(x, y, 2, 2), ColSum(x, y, 3, 3), ColSum(x, y, 4, 4),
         ColSum(x, y, 5, 5), ColSum(x, y, 6, 6), ColSum(x, y, 7, 7), ColSum(x, y, 8, 8)>>, 0)
MinusOneIsMinusTwo(x) == IF x = Word(-1) THEN Word(-2) ELSE x

\* ord() of the characters of the keyword names
Ord(s) == IF s = "a" THEN <<97>> ELSE <<98>>

IntHash(n) == MinusOneIsMinusTwo(Word(n))

RECURSIVE StrFold(_, _)
StrFold(x, cs) ==
  IF cs = <<>> THEN x
  ELSE StrFold(WXor(WMul(Word(1000003), x), Word(Head(cs))), Tail(cs))
StrHash(s) ==
  MinusOneIsMinusTwo(WXor(StrFold(Word(Ord(s)[1] * 128), Ord(s)), Word(Len(Ord(s)))))

RECURSIVE TupleFold(_, _, _)
TupleFold(x, mult, hs) ==
  IF hs = <<>> THEN x
  ELSE TupleFold(WMul(WXor(x, Head(hs)), Word(mult)),
                 mult + 82520 + 2 * (Len(hs) - 1), Tail(hs))
TupleHash(hs) == MinusOneIsMinusTwo(WAdd(TupleFold(Word(3430008), 1000003, hs), Word(97531)))

ItemHash(e) == IF e.pair THEN TupleHash(<<StrHash(e.name), IntHash(e.v)>>) ELSE IntHash(e.v)
RECURSIVE ItemHashes(_)
ItemHashes(items) ==
  IF items = <<>> THEN <<>> ELSE <<ItemHash(Head(items))>> \o ItemHashes(Tail(items))
PyHash(key) ==
  IF key.tuple THEN TupleHash(ItemHashes(key.items))
  ELSE ItemHash(key.items[1])

\* x % n for a long x and n > 0: Python's %, never negative
RECURSIVE UMod(_, _)
UMod(x, n) == IF x = <<>> THEN 0 ELSE (UMod(Tail(x), n) * 256 + Head(x)) % n
PyMod(x, n) ==
  IF x[8] >= 128 THEN (UMod(x, n) + n - UMod(<<0, 0, 0, 0, 0, 0, 0, 0, 1>>, n)) % n
  ELSE UMod(x, n)

\* hashval % len(self.servers)
server_index(h, k, args, kwargs) == PyMod(PyHash(hashkey(h, k, args, kwargs)), Len(h.self.servers))

(***************************************************************************)
(* Actions of the pool.                                                    *)
(***************************************************************************)
\* host and port are the arguments of a remove_server(host=..., port=...)
NoOp == [op |-> "none", err |-> "none", ret |-> NoServer, host |-> NoHost, port |-> NoPort]
\* `retry` remembers that the endpoint's call before the last enable() raised
\* ClientDisabledError
NoCall == [kind |-> "none", state |-> "returned", srv |-> NoServer, out |-> "none",
           retry |-> FALSE, k |-> "", args |-> <<>>, kwargs |-> <<>>, prev |-> <<>>]
Idle == call.state # "running"

\* SimpleClient(protocol, host, port, name=name): an endpoint built by the caller
NewClient(host, port, name) ==
  /\ Len(objs) < MaxObjs
  /\ objs' = Append(objs, SimpleClient(Len(objs) + 1, host, port, FALSE, NoTimeout, name).obj)
  /\ UNCHANGED <<pool, last, call, invs, responses, hc>>

AddServer(host, port, server, name) ==
  /\ Len(pool.servers) < MaxPool
  /\ server = NoServer => Len(objs) < MaxObjs
  /\ \E r \in {add_server(objs, pool, host, port, server, name)} :
        /\ objs' = r.objs
        /\ pool' = r.pool
        /\ last' = [NoOp EXCEPT !.op = "add", !.err = r.err, !.ret = r.ret]
  /\ UNCHANGED <<call, invs, responses, hc>>

RemoveServer(server, name, host, port) ==
  /\ \E r \in {remove_server(objs, pool, server, name, host, port)} :
        /\ pool' = r.pool
        /\ last' = [NoOp EXCEPT !.op = "remove", !.err = r.err,
                                !.host = IF server = NoServer /\ name = NoName THEN host ELSE NoHost,
                                !.port = IF server = NoServer /\ name = NoName THEN port ELSE NoPort]
  /\ UNCHANGED <<objs, call, invs, responses, hc>>

GetServer(name, host, port) ==
  /\ \E r \in {get_server(objs, pool, name, host, port)} :
        last' = [NoOp EXCEPT !.op = "get", !.err = r.err, !.ret = r.ret]
  /\ UNCHANGED <<objs, pool, call, invs, responses, hc>>

\* Argument lists.  An argument the taken branch never reads is left at its default.
HostPorts == (Hosts \X Ports) \cup {<<"h1:9090", NoPort>>, <<"h2", NoPort>>, <<NoHost, NoPort>>}
NameArgs == Names \cup {NoName}
Servers == 1..Len(objs)

\* MultiClient(protocol, timeout=5000): the pool is constructed with a timeout of
\* its own (the pools of the other specifications are constructed without one)
PoolInit ==
  /\ objs = <<>>
  /\ pool = MultiClient_init(5000)
  /\ last = NoOp
  /\ call = NoCall
  /\ invs = <<>>
  /\ responses = <<>>
  /\ hc = HashClient_init(NoTimeout)

PoolNext ==
  \/ \E h \in Hosts, p \in Ports, n \in NameArgs : NewClient(h, p, n)
  \/ \E hp \in HostPorts, n \in NameArgs : AddServer(hp[1], hp[2], NoServer, n)
  \/ \E s \in Servers, n \in NameArgs : AddServer(NoHost, NoPort, s, n)
  \/ \E s \in Servers : RemoveServer(s, NoName, NoHost, NoPort)
  \/ \E n \in Names : RemoveServer(NoServer, n, NoHost, NoPort)
  \/ \E hp \in HostPorts : RemoveServer(NoServer, NoName, hp[1], hp[2])
  \/ \E n \in Names : GetServer(n, NoHost, NoPort)
  \/ \E hp \in HostPorts : GetServer(NoName, hp[1], hp[2])

PoolSpec == PoolInit /\ [][PoolNext]_vars

(***************************************************************************)
(* Actions of the calls.  One application thread (Main) enables, disables  *)
(* and calls; a threaded broadcast adds its worker threads.                *)
(***************************************************************************)
Enable(o) ==
  /\ Idle
  /\ objs' = set_enabled(objs, o, Main, TRUE)
  /\ call' = [NoCall EXCEPT !.kind = "enable", !.srv = o,
                            !.retry = /\ call.kind = "invoke"
                                      /\ call.srv = o
                                      /\ call.out = "ClientDisabledError"]
  /\ invs' = <<>>
  /\ responses' = <<>>
  /\ UNCHANGED <<pool, last, hc>>

Disable(o) ==
  /\ Idle
  /\ objs' = set_enabled(objs, o, Main, FALSE)
  /\ call' = [NoCall EXCEPT !.kind = "disable", !.srv = o]
  /\ invs' = <<>>
  /\ responses' = <<>>
  /\ UNCHANGED <<pool, last, hc>>

\* The behaviours that make a difference to thread t's call of endpoint o: without
\* a log file there is no log write to fail, and a call that finds the endpoint
\* disabled meets neither the log file nor the server.
BehavioursOf(o, t) ==
  IF ~is_enabled(objs, o, t) THEN {[log |-> TRUE, rem |-> "ok"]}
  ELSE {b \in Behaviours : objs[o].file \/ b.log}

\* getattr(o, k)(*args) by the main thread on the endpoint itself
Invoke(o, b) ==
  /\ Idle
  /\ \E r \in {f(objs, o, Main, b)} :
        /\ invs' = <<r>>
        /\ call' = [kind |-> "invoke",
                    state |-> IF r.out \in Errors THEN "raised" ELSE "returned",
                    srv |-> o, out |-> r.out,
                    retry |-> call.kind = "enable" /\ call.srv = o /\ call.retry]
  /\ responses' = <<>>
  /\ UNCHANGED <<objs, pool, last, hc>>

\* getattr(pool, k)(*args) on a ReplicatedClient
Replicated(bs) ==
  /\ Idle
  /\ invs' = replicated_invs(objs, pool.servers, bs)
  /\ responses' = replicated_f(objs, pool.servers, bs)
  /\ call' = [NoCall EXCEPT !.kind = "replicated"]
  /\ UNCHANGED <<objs, pool, last, hc>>

(***************************************************************************)
(* ThreadedReplicatedClient.__getattr__.f: one thread per server, all      *)
(* started, then all joined.  Worker i runs get_response(servers[i]).      *)
(***************************************************************************)
ThreadedStart ==
  /\ Idle
  /\ call' = [NoCall EXCEPT !.kind = "threaded", !.state = "running"]
  /\ responses' = <<>>
  /\ invs' = [i \in 1..Len(pool.servers) |->
                [srv |-> pool.servers[i], thr |-> i, flag |-> TRUE,
                 events |-> <<>>, out |-> "unstarted"]]
  /\ objs' = thread_local_init(objs, 1..Len(pool.servers))
  /\ UNCHANGED <<pool, last, hc>>

\* worker i: the is_enabled() check and the log write; the worker then waits in
\* transport.open(), or has raised ClientDisabledError and appends its response
WorkerBegin(i, b) ==
  /\ call.state = "running"
  /\ i \in DOMAIN invs
  /\ invs[i].out = "unstarted"
  /\ LET o == invs[i].srv
         r == f_log(objs, o, i, b)
         inv == [invs[i] EXCEPT !.flag = is_enabled(objs, o, i),
                                !.events = r.events, !.out = r.out]
     IN /\ invs' = [invs EXCEPT ![i] = inv]
        /\ responses' = IF r.out = "connecting" THEN responses
                        ELSE Append(responses, Response(inv))
  /\ UNCHANGED <<objs, pool, last, call, hc>>

\* worker i: transport.open() returns, or raises and the response is appended
WorkerOpen(i, rem) ==
  /\ call.state = "running"
  /\ i \in DOMAIN invs
  /\ invs[i].out = "connecting"
  /\ LET r == f_open(invs[i].events, rem)
         inv == [invs[i] EXCEPT !.events = r.events, !.out = r.out]
     IN /\ invs' = [invs EXCEPT ![i] = inv]
        /\ responses' = IF r.out = "pending" THEN responses
                        ELSE Append(responses, Response(inv))
  /\ UNCHANGED <<objs, pool, last, call, hc>>

\* worker i: the remote call returns or raises; the response is appended
WorkerFinish(i, rem) ==
  /\ call.state = "running"
  /\ i \in DOMAIN invs
  /\ invs[i].out = "pending"
  /\ LET r == f_finish(invs[i].events, rem)
         inv == [invs[i] EXCEPT !.events = r.events, !.out = r.out]
     IN /\ invs' = [invs EXCEPT ![i] = inv]
        /\ responses' = Append(responses, Response(inv))
  /\ UNCHANGED <<objs, pool, last, call, hc>>

\* a variant that returns as soon as one thread has finished
ThreadedReturn_first ==
  /\ call.state = "running"
  /\ \E i \in DOMAIN invs : invs[i].out \notin {"unstarted", "connecting", "pending"}
  /\ call' = [call EXCEPT !.state = "returned"]
  /\ UNCHANGED <<objs, pool, last, invs, responses, hc>>

\* a variant whose join loop needs at least one thread to have been started
ThreadedReturn_needs_worker ==
  /\ call.state = "running"
  /\ invs # <<>>
  /\ \A i \in DOMAIN invs : invs[i].out \notin {"unstarted", "connecting", "pending"}
  /\ call' = [call EXCEPT !.state = "returned"]
  /\ UNCHANGED <<objs, pool, last, invs, responses, hc>>

\* every thread is joined: f returns `responses`
ThreadedReturn ==
  /\ call.state = "running"
  /\ \A i \in DOMAIN invs : invs[i].out \notin {"unstarted", "connecting", "pending"}
  /\ call' = [call EXCEPT !.state = "returned"]
  /\ UNCHANGED <<objs, pool, last, invs, responses, hc>>

(***************************************************************************)
(* The calls start from a pool that add_server(server=...) has filled with *)
(* endpoints the caller built; endpoint 1 writes a log file.               *)
(***************************************************************************)
NumEndpoints == 2
Endpoints(n) ==
  [i \in 1..n |->
     SimpleClient(i, IF i % 2 = 1 THEN "h1" ELSE "h2", 9090, i = 1, NoTimeout, NoName).obj]
EndpointObjs == Endpoints(NumEndpoints)

RECURSIVE BuildPool(_, _, _)
BuildPool(os, p, s) ==
  IF s = <<>> THEN p
  ELSE BuildPool(os, add_server(os, p, NoHost, NoPort, Head(s), NoName).pool, Tail(s))

\* the pools that adding distinct endpoints, in any order, gives
PoolsOf(os) ==
  {BuildPool(os, MultiClient_init(NoTimeout), s) :
     s \in {q \in UNION {[1..n -> DOMAIN os] : n \in 0..MaxPool} :
              \A i, j \in DOMAIN q : q[i] = q[j] => i = j}}

CallInit ==
  /\ objs = EndpointObjs
  /\ pool \in PoolsOf(EndpointObjs)
  /\ last = NoOp
  /\ call = NoCall
  /\ invs = <<>>
  /\ responses = <<>>
  /\ hc = HashClient_init(NoTimeout)

RECURSIVE BehaviourLists(_)
BehaviourLists(servers) ==
  IF servers = <<>> THEN {<<>>}
  ELSE {<<b>> \o bs : b \in BehavioursOf(Head(servers), Main),
                       bs \in BehaviourLists(Tail(servers))}

CallNext ==
  \/ \E o \in Servers : Enable(o)
  \/ \E o \in Servers : Disable(o)
  \/ \E o \in Servers : \E b \in BehavioursOf(o, Main) : Invoke(o, b)
  \/ \E bs \in BehaviourLists(pool.servers) : Replicated(bs)
  \/ ThreadedStart
  \/ \E i \in DOMAIN invs : \E b \in BehavioursOf(invs[i].srv, i) :
        b.rem = "ok" /\ WorkerBegin(i, b)
  \/ \E i \in DOMAIN invs : \E rem \in {"ok", "connfail"} : WorkerOpen(i, rem)
  \/ \E i \in DOMAIN invs : \E rem \in Rems \ {"connfail"} : WorkerFinish(i, rem)
  \/ ThreadedReturn

CallSpec == CallInit /\ [][CallNext]_vars

(***************************************************************************)
(* Threaded broadcasts alone, one after another, on the same pools.        *)
(* thread.start() makes worker i runnable, and a runnable thread is        *)
(* scheduled: each worker's steps are weakly fair, the open() and the      *)
(* remote call of a worker return or raise, and the main thread, blocked   *)
(* in thread.join() with no timeout, goes on once every worker has ended.  *)
(***************************************************************************)
FanoutNext ==
  \/ ThreadedStart
  \/ \E i \in DOMAIN invs : \E b \in BehavioursOf(invs[i].srv, i) :
        b.rem = "ok" /\ WorkerBegin(i, b)
  \/ \E i \in DOMAIN invs : \E rem \in {"ok", "connfail"} : WorkerOpen(i, rem)
  \/ \E i \in DOMAIN invs : \E rem \in Rems \ {"connfail"} : WorkerFinish(i, rem)
  \/ ThreadedReturn

FanoutFair ==
  /\ \A i \in 1..MaxPool :
        WF_vars(/\ i \in DOMAIN invs
                /\ \E b \in BehavioursOf(invs[i].srv, i) : b.rem = "ok" /\ WorkerBegin(i, b))
  /\ \A i \in 1..MaxPool : WF_vars(\E rem \in {"ok", "connfail"} : WorkerOpen(i, rem))
  /\ \A i \in 1..MaxPool : WF_vars(\E rem \in Rems \ {"connfail"} : WorkerFinish(i, rem))
  /\ WF_vars(ThreadedReturn)

FanoutSpec == CallInit /\ [][FanoutNext]_vars /\ FanoutFair

(***************************************************************************)
(* Calls of one enabled endpoint, without a log file, made by several      *)
(* threads at once, each thread making one call.  Here invs[t] is thread   *)
(* t's call: pc is where f stands, socket is thread t's copy of the        *)
(* endpoint's `socket` attribute, open says whether the TSocket this call  *)
(* created is open, closed is the TSocket its self.socket.close() closed.  *)
(* The TSocket that thread t creates is number t + 1.                      *)
(***************************************************************************)
NoSocket == 0
TSocket(t) == t + 1

\* a variant with one `socket` attribute for all threads (a plain class)
socket_attr_shared(t) == Main

\* where thread t finds the attribute: SimpleClient is a threading.local, so in
\* its own copy
socket_attr(t) == t

\* _connect: self.socket = TSocket(...); the thread then waits in transport.open()
SockAssign(t) ==
  /\ invs[t].pc = "start"
  /\ invs[t].out = "unstarted"
  /\ invs' = [[invs EXCEPT ![socket_attr(t)].socket = TSocket(t)]
                EXCEPT ![t].out = "pending"]
  /\ UNCHANGED <<objs, pool, last, call, responses, hc>>

\* _connect: transport.open() of the TSocket this call created returns or raises
SockConnect(t, opened) ==
  /\ invs[t].pc = "start"
  /\ invs[t].out = "pending"
  /\ invs' = [invs EXCEPT ![t].pc = IF opened THEN "connected" ELSE "done",
                          ![t].open = opened,
                          ![t].out = IF opened THEN "pending" ELSE "TransportError"]
  /\ UNCHANGED <<objs, pool, last, call, responses, hc>>

\* ret = getattr(client, k)(...): the client holds the transport of the TSocket
\* that this call created
SockCall(t, rem) ==
  /\ invs[t].pc = "connected"
  /\ invs' = [invs EXCEPT ![t].pc = IF rem = "ok" THEN "called" ELSE "done",
                          ![t].on = TSocket(t),
                          ![t].out = IF rem = "ok" THEN "pending"
                                     ELSE f_finish(<<>>, rem).out]
  /\ UNCHANGED <<objs, pool, last, call, responses, hc>>

\* self.socket.close(); return ret
SockClose(t) ==
  /\ invs[t].pc = "called"
  /\ \E s \in {invs[socket_attr(t)].socket} :
        invs' = [[invs EXCEPT ![s - 1].open = FALSE]
                   EXCEPT ![t].pc = "done", ![t].closed = s,
                          ![t].out = f_finish(<<>>, "ok").out]
  /\ UNCHANGED <<objs, pool, last, call, responses, hc>>

SockInit ==
  /\ objs = Endpoints(1)
  /\ pool = MultiClient_init(NoTimeout)
  /\ last = NoOp
  /\ call = NoCall
  /\ invs = [t \in Threads |-> [pc |-> "start", socket |-> NoSocket, open |-> FALSE,
                                on |-> NoSocket, closed |-> NoSocket, out |-> "unstarted"]]
  /\ responses = <<>>
  /\ hc = HashClient_init(NoTimeout)

SockNext ==
  \/ \E t \in Threads : SockAssign(t)
  \/ \E t \in Threads, opened \in BOOLEAN : SockConnect(t, opened)
  \/ \E t \in Threads, rem \in Rems \ {"connfail"} : SockCall(t, rem)
  \/ \E t \in Threads : SockClose(t)

SockSpec == SockInit /\ [][SockNext]_vars

(***************************************************************************)
(* Actions of the HashClient.                                              *)
(***************************************************************************)
HashAddServer(host, port, server) ==
  /\ Len(hc.self.servers) < MaxPool
  /\ Len(hc.all.servers) < MaxPool
  /\ server = NoServer => Len(objs) < MaxObjs
  /\ \E r \in {hash_add_server(objs, hc, host, port, server)} :
        /\ objs' = r.objs
        /\ hc' = r.hc
        /\ last' = [NoOp EXCEPT !.op = "add", !.err = r.err, !.ret = r.ret]
  /\ call' = NoCall
  /\ invs' = <<>>
  /\ responses' = <<>>
  /\ UNCHANGED pool

HashRemoveServer(server, host, port) ==
  /\ \E r \in {hash_remove_server(objs, hc, server, host, port)} :
        /\ hc' = r.hc
        /\ last' = [NoOp EXCEPT !.op = "remove", !.err = r.err,
                                !.host = IF server = NoServer THEN host ELSE NoHost,
                                !.port = IF server = NoServer THEN port ELSE NoPort]
  /\ call' = NoCall
  /\ invs' = <<>>
  /\ responses' = <<>>
  /\ UNCHANGED <<objs, pool>>

SetHash(fnname, hashfn) ==
  /\ hc' = set_hash(hc, fnname, hashfn)
  /\ last' = [NoOp EXCEPT !.op = "set_hash"]
  /\ call' = NoCall
  /\ invs' = <<>>
  /\ responses' = <<>>
  /\ UNCHANGED <<objs, pool>>

\* the previous operation was the same hash-routed call, up to the order of
\* its keyword arguments
SameCall(k, args, kwargs) ==
  /\ call.kind = "hash"
  /\ call.k = k
  /\ call.args = args
  /\ {kwargs[i] : i \in DOMAIN kwargs} = {call.kwargs[i] : i \in DOMAIN call.kwargs}

\* a variant of HashClient.__getattr__.f that returns None from an empty pool
hash_f_none_when_empty(os, h, k, args, kwargs, b) ==
  LET server == IF h.self.servers = <<>> THEN NoServer
                ELSE h.self.servers[server_index(h, k, args, kwargs) + 1]
      r == f(os, server, Main, b)
  IN IF h.self.servers = <<>>
     THEN [state |-> "returned", out |-> "none", srv |-> NoServer,
           invs |-> <<>>, responses |-> <<>>]
     ELSE [state |-> "returned", out |-> r.out, srv |-> server,
           invs |-> <<r>>, responses |-> <<Response(r)>>]

\* HashClient.__getattr__.f: the key, its hash, the index (the % raises
\* ZeroDivisionError on an empty pool), the one server's call, and the response
\* object that wraps its value or its error and is returned
hash_f(os, h, k, args, kwargs, b) ==
  IF h.self.servers = <<>>
  THEN [state |-> "raised", out |-> "ZeroDivisionError", srv |-> NoServer,
        invs |-> <<>>, responses |-> <<>>]
  ELSE LET server == h.self.servers[server_index(h, k, args, kwargs) + 1]
           r == f(os, server, Main, b)
       IN [state |-> "returned", out |-> r.out, srv |-> server,
           invs |-> <<r>>, responses |-> <<Response(r)>>]

\* getattr(hc, k)(*args, **kwargs)
HashCall(k, args, kwargs, b) ==
  /\ \E r \in {hash_f(objs, hc, k, args, kwargs, b)} :
        /\ invs' = r.invs
        /\ responses' = r.responses
        /\ call' = [NoCall EXCEPT !.kind = "hash", !.state = r.state, !.srv = r.srv,
                                  !.out = r.out, !.k = k, !.args = args, !.kwargs = kwargs,
                                  !.prev = IF r.state = "returned" /\ SameCall(k, args, kwargs)
                                           THEN <<[srv |-> call.srv, kwargs |-> call.kwargs]>>
                                           ELSE <<>>]
  /\ last' = NoOp
  /\ UNCHANGED <<objs, pool, hc>>

\* getattr(hc.all, k)(*args): the broadcast over the nested pool
HashAll(bs) ==
  /\ invs' = replicated_invs(objs, hc.all.servers, bs)
  /\ responses' = replicated_f(objs, hc.all.servers, bs)
  /\ call' = [NoCall EXCEPT !.kind = "all"]
  /\ last' = NoOp
  /\ UNCHANGED <<objs, pool, hc>>

Methods == {"get", "put"}
\* one positional argument; -1 makes the hash of the key negative
ArgLists == {<<1>>, <<-1>>}
KwLists == {<<>>, <<<<"a", 1>>, <<"b", 1>>>>, <<<<"b", 1>>, <<"a", 1>>>>}

HashInit ==
  /\ objs = <<>>
  /\ pool = MultiClient_init(NoTimeout)
  /\ last = NoOp
  /\ call = NoCall
  /\ invs = <<>>
  /\ responses = <<>>
  /\ hc = HashClient_init(NoTimeout)

HashNext ==
  \/ \E h \in Hosts, p \in Ports, n \in NameArgs : NewClient(h, p, n)
  \/ \E hp \in HostPorts : HashAddServer(hp[1], hp[2], NoServer)
  \/ \E s \in Servers : HashAddServer(NoHost, NoPort, s)
  \/ \E s \in Servers : HashRemoveServer(s, NoHost, NoPort)
  \/ \E hp \in HostPorts : HashRemoveServer(NoServer, hp[1], hp[2])
  \/ \E bs \in {x \in BehaviourLists(hc.all.servers) :
                   \A i \in DOMAIN x : x[i].rem \in {"ok", "apperr"}} : HashAll(bs)

HashSpec == HashInit /\ [][HashNext]_vars

(***************************************************************************)
(* Hash routing, from a HashClient that add_server(server=...) has filled  *)
(* with endpoints the caller built.                                        *)
(***************************************************************************)
RECURSIVE BuildHash(_, _, _)
BuildHash(os, h, s) ==
  IF s = <<>> THEN h
  ELSE BuildHash(os, hash_add_server(os, h, NoHost, NoPort, Head(s)).hc, Tail(s))

\* the largest pool a routed call meets
MaxRoute == 3
HashClientsOf(os) ==
  {BuildHash(os, HashClient_init(NoTimeout), [i \in 1..n |-> i]) : n \in 0..Len(os)}

RouteInit ==
  /\ objs = Endpoints(MaxRoute)
  /\ pool = MultiClient_init(NoTimeout)
  /\ last = NoOp
  /\ call = NoCall
  /\ invs = <<>>
  /\ responses = <<>>
  /\ hc \in HashClientsOf(Endpoints(MaxRoute))

RouteNext ==
  \/ \E k \in Methods, fn \in HashFns : SetHash(k, fn)
  \/ \E k \in Methods, args \in ArgLists, kwargs \in KwLists, rem \in {"ok", "apperr"} :
        HashCall(k, args, kwargs, [log |-> TRUE, rem |-> rem])

RouteSpec == RouteInit /\ [][RouteNext]_vars

(***************************************************************************)
(* Properties of the calls (CallSpec).                                     *)
(***************************************************************************)
Finished(inv) == inv.out \notin {"unstarted", "connecting", "pending"}
Has(seq, e) == \E i \in DOMAIN seq : seq[i] = e
Broadcast == call.kind \in {"replicated", "threaded"} /\ call.state = "returned"

\* C1: a serial broadcast invokes every endpoint of the pool exactly once, in pool
\* order, and returns one Result per endpoint, the i-th carrying the i-th endpoint.
C1_SerialBroadcastInPoolOrder ==
  call.kind = "replicated" =>
    /\ Len(invs) = Len(pool.servers)
    /\ Len(responses) = Len(pool.servers)
    /\ \A i \in DOMAIN pool.servers :
          /\ invs[i].srv = pool.servers[i]
          /\ Finished(invs[i])
          /\ responses[i].server = pool.servers[i]

C1_Witness ==
  /\ call.kind = "replicated"
  /\ Len(pool.servers) = NumEndpoints
  /\ responses[1].is_error
  /\ ~responses[NumEndpoints].is_error

\* C2: a broadcast, serial or concurrent, returns and never raises; it returns one
\* Result per endpoint of the pool, a Failure carrying the endpoint and its error
\* for each endpoint whose call raised and a Success carrying the value for each
\* other one; so one failing endpoint gives one Failure and N-1 Successes.
C2_BroadcastNeverFails ==
  /\ call.kind \in {"replicated", "threaded"} => call.state # "raised"
  /\ Broadcast =>
       /\ Len(responses) = Len(pool.servers)
       /\ \A i \in DOMAIN invs :
             /\ Finished(invs[i])
             /\ Cardinality({j \in DOMAIN responses : responses[j].server = invs[i].srv}) = 1
             /\ \A j \in DOMAIN responses :
                   responses[j].server = invs[i].srv =>
                     /\ responses[j].is_error = (invs[i].out \in Errors)
                     /\ responses[j].val = invs[i].out
       /\ Cardinality({i \in DOMAIN invs : invs[i].out \in Errors}) = 1 =>
             /\ Cardinality({j \in DOMAIN responses : responses[j].is_error}) = 1
             /\ Cardinality({j \in DOMAIN responses : ~responses[j].is_error})
                  = Len(pool.servers) - 1

C2_Witness ==
  /\ call.kind = "threaded"
  /\ call.state = "returned"
  /\ Len(pool.servers) = NumEndpoints
  /\ Cardinality({i \in DOMAIN invs : invs[i].out \in Errors}) = 1
  /\ responses[1].server = pool.servers[NumEndpoints]

\* The behaviour a finished invocation met, read back from what it did.
BehaviourMet(inv) ==
  [log |-> ~Has(inv.events, "log_write_failed"),
   rem |-> IF Has(inv.events, "open_failed") THEN "connfail"
           ELSE IF inv.out = "AppError" THEN "apperr"
           ELSE IF inv.out = "TransportError" THEN "transerr"
           ELSE "ok"]
Outcomes(rs) == {<<rs[i].server, rs[i].is_error, rs[i].val>> : i \in DOMAIN rs}

\* C3: a concurrent broadcast returns the same set of (endpoint, outcome) pairs as
\* a serial broadcast over the same pool meeting the same servers, endpoints the
\* caller has disabled included.
C3_ConcurrentSameAsSerial ==
  (call.kind = "threaded" /\ call.state = "returned") =>
    Outcomes(responses)
      = Outcomes(replicated_f(objs, pool.servers,
                              [i \in DOMAIN invs |-> BehaviourMet(invs[i])]))

\* C7: a call on an endpoint the calling thread has disabled raises
\* ClientDisabledError and neither writes to the log nor opens a connection; the
\* same call once the thread has enabled the endpoint again goes through the
\* connection cycle and, the server answering, returns its value.
C7_DisabledThenEnabled ==
  call.kind = "invoke" =>
    /\ ~objs[call.srv].enabled[Main] =>
          /\ call.state = "raised"
          /\ call.out = "ClientDisabledError"
          /\ invs[1].events = <<>>
    /\ call.retry =>
          /\ objs[call.srv].enabled[Main]
          /\ call.out # "ClientDisabledError"
          /\ Has(invs[1].events, "open") \/ Has(invs[1].events, "open_failed")
          /\ call.state = "returned" =>
                /\ call.out = "value"
                /\ Len(invs[1].events) >= 3
                /\ SubSeq(invs[1].events, Len(invs[1].events) - 2, Len(invs[1].events))
                     = <<"open", "call", "close">>

C7_Witness ==
  /\ call.kind = "invoke"
  /\ call.retry
  /\ call.out = "value"
  /\ invs[1].events = <<"log_write", "open", "call", "close">>

\* C8: the enabled flag of an endpoint is one state shared by all threads, so an
\* endpoint the application thread has disabled is refused by every thread that
\* calls it, the worker threads of a concurrent broadcast included.
C8_FlagSharedByThreads ==
  \A i \in DOMAIN invs :
     (Finished(invs[i]) /\ ~objs[invs[i].srv].enabled[Main]) =>
        invs[i].out = "ClientDisabledError"

\* C9: every invocation that opened a connection has closed it when it ends,
\* whether it returns or raises.
C9_ConnectionReleased ==
  \A i \in DOMAIN invs :
     (Finished(invs[i]) /\ Has(invs[i].events, "open")) => Has(invs[i].events, "close")

(***************************************************************************)
(* Properties of the pool (PoolSpec).                                      *)
(***************************************************************************)
\* C5: every endpoint of pool.servers is in pool.server_dict under its own name and
\* under no other key, and every entry of pool.server_dict is an endpoint of
\* pool.servers, after any adds and removes.
C5_ServersMatchServerDict ==
  /\ \A i \in DOMAIN pool.servers :
        {n \in DOMAIN pool.server_dict : pool.server_dict[n] = pool.servers[i]}
          = {objs[pool.servers[i]].name}
  /\ \A i, j \in DOMAIN pool.servers : pool.servers[i] = pool.servers[j] => i = j
  /\ \A n \in DOMAIN pool.server_dict : Has(pool.servers, pool.server_dict[n])

\* C6: a pool never holds two members with the same name: an add that would make
\* a second member of a name either raises or is not made.
C6_NoTwoMembersOfOneName ==
  \A i, j \in DOMAIN pool.servers :
     objs[pool.servers[i]].name = objs[pool.servers[j]].name => i = j

(***************************************************************************)
(* Properties of the hash client (HashSpec, RouteSpec).                    *)
(***************************************************************************)
\* C4: after remove_server(host=h, port=p) on a HashClient no endpoint at (h, p) is
\* left in its own servers nor in those of its `all` client.
C4_RemovedFromBothPools ==
  (last.op = "remove" /\ last.host \in Hosts /\ last.port \in Ports) =>
     /\ \A i \in DOMAIN hc.self.servers :
           <<objs[hc.self.servers[i]].host, objs[hc.self.servers[i]].port>>
             # <<last.host, last.port>>
     /\ \A i \in DOMAIN hc.all.servers :
           <<objs[hc.all.servers[i]].host, objs[hc.all.servers[i]].port>>
             # <<last.host, last.port>>

\* C10: with the pool and the hash functions unchanged, a call of the same method
\* with the same positional arguments and the same keyword arguments, given in
\* the same or in another order, goes to the server the call before it went to.
C10_SameArgumentsSameServer ==
  (call.kind = "hash" /\ call.prev # <<>>) => call.srv = call.prev[1].srv

C10_Witness ==
  /\ call.kind = "hash"
  /\ call.prev # <<>>
  /\ call.prev[1].kwargs # call.kwargs
  /\ call.k \notin DOMAIN hc.hashfns
  /\ Len(hc.self.servers) = MaxRoute
  /\ call.srv = call.prev[1].srv

\* C11: a hash-routed call on a HashClient with no server raises (the index
\* computation divides by zero), the error reaches the caller, and no endpoint is
\* called: no log write, no connection.
C11_EmptyPoolCallRaises ==
  (call.kind = "hash" /\ hc.self.servers = <<>>) =>
     /\ call.state = "raised"
     /\ call.out = "ZeroDivisionError"
     /\ call.srv = NoServer
     /\ invs = <<>>
     /\ responses = <<>>

C11_Witness ==
  /\ call.kind = "hash"
  /\ hc.self.servers = <<>>
  /\ call.state = "raised"
  /\ call.k \in DOMAIN hc.hashfns

\* C12: when the server a hash-routed call selects raises, the call itself raises
\* that error to its caller.
C12_HashCallRaisesServerError ==
  (call.kind = "hash" /\ invs # <<>> /\ invs[1].out \in Errors) => call.state = "raised"

\* C13: after an add that succeeds, get_server by the added endpoint's name returns
\* that endpoint; after a remove that succeeds, get_server by the name of the
\* endpoint removed raises KeyError; get_server without a name and without a
\* (host, port) pair raises KeyError.
C13_AddGetRemoveGet ==
  [][ /\ (last'.op = "add" /\ last'.err = "none") =>
            get_server(objs', pool', objs'[last'.ret].name, NoHost, NoPort)
              = [err |-> "none", ret |-> last'.ret]
      /\ (last'.op = "remove" /\ last'.err = "none") =>
            /\ \A s \in 1..Len(objs) :
                  RemoveServer(s, NoName, NoHost, NoPort) =>
                     get_server(objs', pool', objs[s].name, NoHost, NoPort).err = "KeyError"
            /\ \A n \in Names :
                  RemoveServer(NoServer, n, NoHost, NoPort) =>
                     get_server(objs', pool', n, NoHost, NoPort).err = "KeyError"
            /\ \A hp \in HostPorts :
                  RemoveServer(NoServer, NoName, hp[1], hp[2]) =>
                     \A i \in DOMAIN pool.servers :
                        ~Has(pool'.servers, pool.servers[i]) =>
                           get_server(objs', pool', objs[pool.servers[i]].name,
                                      NoHost, NoPort).err = "KeyError"
      /\ (last'.op = "get" /\ GetServer(NoName, NoHost, NoPort)) => last'.err = "KeyError"
    ]_vars

\* an endpoint named "h1" was added, then removed, and the name is not found
C13_Witness ==
  /\ last.op = "remove"
  /\ last.err = "none"
  /\ \E o \in DOMAIN objs : objs[o].name = "h1" /\ ~Has(pool.servers, o)
  /\ Len(pool.servers) = 1
  /\ get_server(objs, pool, "h1", NoHost, NoPort).err = "KeyError"

Count(seq, S) == Cardinality({j \in DOMAIN seq : seq[j] \in S})
LogEvents == {"log_write", "log_write_failed"}
NotLog(x) == x \notin LogEvents

\* C14: a call that finds its endpoint enabled writes to the log file, when the
\* endpoint has one, before it opens the connection; whether the write works,
\* fails or there is no file, the connection is attempted exactly once, the remote
\* call is made once on the open connection, and the caller gets its value or
\* error.
C14_LogBeforeNetworkAndHarmless ==
  \A i \in DOMAIN invs :
     (Finished(invs[i]) /\ invs[i].flag) =>
        LET e == invs[i].events
            rem == BehaviourMet(invs[i]).rem
        IN /\ Count(e, {"open", "open_failed"}) = 1
           /\ Count(e, {"call"}) = (IF Has(e, "open") THEN 1 ELSE 0)
           /\ Count(e, LogEvents) = (IF objs[invs[i].srv].file THEN 1 ELSE 0)
           /\ objs[invs[i].srv].file => e[1] \in LogEvents
           /\ LET logged == f(objs, invs[i].srv, invs[i].thr, [log |-> TRUE, rem |-> rem])
              IN /\ invs[i].out = logged.out
                 /\ SelectSeq(e, NotLog) = SelectSeq(logged.events, NotLog)

C14_Witness ==
  \E i \in DOMAIN invs :
     /\ invs[i].thr # Main
     /\ invs[i].events = <<"log_write_failed", "open", "call", "close">>
     /\ invs[i].out = "value"

\* C15: a threaded broadcast has one worker per server of the pool; it returns
\* only when every worker has finished; `responses` holds one response for each
\* worker that has finished and none for the others, so at the return exactly one
\* per worker; a worker that fails stops no other worker.
C15_JoinAllBarrier ==
  call.kind = "threaded" =>
    /\ Len(invs) = Len(pool.servers)
    /\ \A i \in DOMAIN invs : invs[i].srv = pool.servers[i] /\ invs[i].thr = i
    /\ \A i \in DOMAIN invs :
          Cardinality({j \in DOMAIN responses : responses[j].server = invs[i].srv})
            = (IF Finished(invs[i]) THEN 1 ELSE 0)
    /\ Len(responses) = Cardinality({i \in DOMAIN invs : Finished(invs[i])})
    /\ call.state = "returned" => \A i \in DOMAIN invs : Finished(invs[i])

\* the first worker failed at once, the second one started later and still got
\* its value, and the call returned with both responses
C15_Witness ==
  /\ call.kind = "threaded"
  /\ call.state = "returned"
  /\ Len(invs) = NumEndpoints
  /\ invs[1].out = "TransportError"
  /\ invs[NumEndpoints].out = "value"
  /\ responses[1].server = invs[1].srv
  /\ Len(responses) = NumEndpoints

\* C16: after any add_server and remove_server calls on a HashClient, failing ones
\* included, the servers of its `all` client are the servers of the HashClient
\* itself, in the same order.
C16_AllMirrorsPool == hc.all.servers = hc.self.servers

\* the key and the index of the call in `call`, worked out from the arguments
CallKey ==
  IF call.k \in DOMAIN hc.hashfns
  THEN apply_hashfn(hc.hashfns[call.k], call.args, call.kwargs)
  ELSE default_key(call.args, call.kwargs)
CallIndex == PyMod(PyHash(CallKey), Len(hc.self.servers))

\* C17: a hash-routed call on a pool with servers calls exactly one server, the
\* one at index hash(key) % len(servers), an index from 0 to len(servers) - 1 also
\* when the hash is negative; the key comes from the hash function set for the
\* called method if there is one, whatever is set for other methods, and is the
\* default key otherwise.
C17_RoutedToHashIndex ==
  (call.kind = "hash" /\ hc.self.servers # <<>>) =>
     /\ call.state = "returned"
     /\ CallIndex \in 0..(Len(hc.self.servers) - 1)
     /\ call.srv = hc.self.servers[CallIndex + 1]
     /\ Len(invs) = 1
     /\ invs[1].srv = call.srv
     /\ Len(responses) = 1
     /\ responses[1].server = call.srv

\* a call with a negative hash, of a method without a hash function while the
\* other method has one, that went to the last of the servers
C17_Witness ==
  /\ call.kind = "hash"
  /\ Len(hc.self.servers) = MaxRoute
  /\ call.k \notin DOMAIN hc.hashfns
  /\ DOMAIN hc.hashfns # {}
  /\ PyHash(CallKey)[8] >= 128
  /\ call.srv = hc.self.servers[MaxRoute]

\* C18: calls of one endpoint made by different threads share no connection: a
\* call that waits in open() or has connected and not yet ended finds in
\* self.socket the TSocket it created, it makes its remote call on that TSocket,
\* the TSocket it closes is the one it created, and its TSocket is closed by no
\* other call.
C18_NoSharedSocket ==
  \A t \in Threads :
     /\ (invs[t].pc = "start" /\ invs[t].out = "pending") =>
           invs[socket_attr(t)].socket = TSocket(t)
     /\ invs[t].pc \in {"connected", "called"} =>
           /\ invs[socket_attr(t)].socket = TSocket(t)
           /\ invs[t].open
     /\ invs[t].on \in {NoSocket, TSocket(t)}
     /\ invs[t].closed \in {NoSocket, TSocket(t)}
     /\ invs[t].out = "value" => (invs[t].closed = TSocket(t) /\ ~invs[t].open)

\* three calls overlap: one has connected, one holds its return value and has
\* not closed yet, one has closed its TSocket and returned
C18_Witness ==
  \E t, u, v \in Threads :
     /\ invs[t].pc = "connected"
     /\ invs[u].pc = "called"
     /\ invs[v].out = "value"
     /\ invs[v].closed = TSocket(v)
     /\ t > u /\ u > v

\* C19: an endpoint that add_server(host, port) creates has the timeout the pool
\* was constructed with, and the default timeout when the pool was constructed
\* without one.
C19_PoolTimeoutGivenToEndpoints ==
  [][ \A hp \in HostPorts, n \in NameArgs :
         (AddServer(hp[1], hp[2], NoServer, n) /\ last'.err = "none") =>
            objs'[last'.ret].timeout
              = (IF pool.given # NoTimeout THEN pool.given ELSE _DEFAULT_TIMEOUT)
    ]_vars

\* C20: a pool operation that fails leaves the pool unchanged: after an add that
\* raised for a duplicate name, or a remove or lookup that raised because its
\* target is not a member, the endpoint sequence and the name index are what
\* they were before the operation.
C20_FailedOperationChangesNothing ==
  [][ (last'.op \in {"add", "remove", "get"} /\ last'.err \in {"ValueError", "KeyError"})
        => (pool'.servers = pool.servers /\ pool'.server_dict = pool.server_dict)
    ]_vars

\* C21: removing an endpoint by reference removes exactly that endpoint: when the
\* pool holds the endpoint and another member equal to it (same host, port and
\* protocol) under a different name, remove_server(server=E) takes E out of the
\* endpoint sequence and E's name out of the name index, and leaves the other
\* member in both.
C21_RemoveByReferenceRemovesThatOne ==
  [][ \A s \in Servers :
        ( /\ Count(pool.servers, {s}) = 1
          /\ s = get_server(objs, pool, objs[s].name, NoHost, NoPort).ret
          /\ \E o \in Servers \ {s} :
                /\ Has(pool.servers, o)
                /\ PyEq(objs, o, s)
                /\ objs[o].name # objs[s].name
                /\ o = get_server(objs, pool, objs[o].name, NoHost, NoPort).ret
          /\ RemoveServer(s, NoName, NoHost, NoPort) )
        => /\ pool'.servers = SelectSeq(pool.servers, LAMBDA x : x # s)
           /\ pool'.server_dict = DictDel(pool.server_dict, objs[s].name)
    ]_vars

\* C22: a threaded broadcast that has started returns, whatever the size of the
\* pool, once every worker's call has returned or raised, and it returns one
\* response per endpoint; on the empty pool it returns the empty list and no
\* worker was started.
C22_ThreadedBroadcastReturns ==
  (call.kind = "threaded" /\ call.state = "running")
    ~> ( /\ call.kind = "threaded"
         /\ call.state = "returned"
         /\ Len(invs) = Len(pool.servers)
         /\ Len(responses) = Len(pool.servers) )

\* a broadcast to two endpoints has returned, one worker with a value and the
\* other with an error
C22_Witness ==
  /\ call.kind = "threaded"
  /\ call.state = "returned"
  /\ Len(pool.servers) = 2
  /\ Len(responses) = 2
  /\ \E i, j \in DOMAIN invs : invs[i].out = "value" /\ invs[j].out \in Errors

=============================================================================
